---- MODULE Spec2Model ----
(***************************************************************************)
(* Model of src/main.py (gold-tax): the cost-basis calculator for a        *)
(* precious-metals ETF lot.  One run of main() is one behaviour.           *)
(*                                                                         *)
(* Units.  A Decimal quantized to 8 places (ounces) is an integer number   *)
(* of 1e-8 ounce; a Decimal quantized to 2 places (currency) is an integer *)
(* number of cents.  The float columns of the table and the float          *)
(* arguments carry one more decimal digit than the quantum they are later  *)
(* rounded to: OuncesPerShare and OuncesSold are integers of 1e-9 ounce,   *)
(* ProceedsPerShare and price are integers of 0.1 cent, so that every      *)
(* quantize() really rounds (ROUND_HALF_UP, ties away from zero).  Their   *)
(* products with the share count are exact at 28 digits.  The division and *)
(* the multiplication of step3 are carried out on 28-digit coefficients,   *)
(* digit by digit, as the decimal context prescribes.                      *)
(*                                                                         *)
(* Dates are day numbers, DaysPerYear to a year; day 0 of a year is        *)
(* January 1, the last one December 31.  The table is a function on the    *)
(* dates it holds (a sorted, unique DatetimeIndex).                        *)
(*                                                                         *)
(* Inputs.  The command line is fixed in Init, but for date_sold, which    *)
(* main reads once and which is drawn where it is read; the file's content *)
(* is drawn when read_csv returns it.  table and trail are history         *)
(* variables: the file as read, and the record of every completed          *)
(* iteration of the carry-forward loop.                                    *)
(***************************************************************************)
EXTENDS Integers, Sequences, FiniteSets, TLC

\* ------------------------------------------------------------------ bounds
MaxYear == 2
DaysPerYear == 2
MaxShares == 2

\* getcontext().prec
Prec == 28

\* the tax years and the days the runs range over
Years == 0..MaxYear
Dates == 0..((MaxYear + 1) * DaysPerYear - 1)
\* --shares: argparse takes any float, negative and zero included
SharesValues == (-1)..MaxShares
\* --price, in 0.1 cent: 0 and 3.5 cents
PriceValues == {0, 35}
\* the table's columns: 1.5e-8 ounce a share, 0 or 0.5e-8 ounce sold a day,
\* 2.5 cents of proceeds a share and day
OuncesPerShareValue == {15}
OuncesSoldValues == {0, 5}
ProceedsPerShareValues == {25}

\* ------------------------------------------------------------------ dates
\* pd.Timestamp.year
YearOf(d) == d \div DaysPerYear
\* pd.to_datetime(str(y) + "-01-01")
Jan1(yr) == yr * DaysPerYear
\* pd.to_datetime(str(y) + "-12-31")
Dec31(yr) == yr * DaysPerYear + (DaysPerYear - 1)

\* ------------------------------------------------------------------ decimal
Abs(n) == IF n < 0 THEN -n ELSE n
Sign(n) == IF n < 0 THEN -1 ELSE 1

RECURSIVE Pow10(_)
Pow10(k) == IF k = 0 THEN 1 ELSE 10 * Pow10(k - 1)

\* the decimal digits of a natural number, most significant first
RECURSIVE Digits(_)
Digits(n) == IF n < 10 THEN <<n>> ELSE Append(Digits(n \div 10), n % 10)

RECURSIVE ToInt(_)
ToInt(ds) ==
  IF ds = <<>> THEN 0
  ELSE 10 * ToInt(SubSeq(ds, 1, Len(ds) - 1)) + ds[Len(ds)]

\* ds + 1 on a digit string (one digit longer when ds is all nines)
RECURSIVE IncDigits(_)
IncDigits(ds) ==
  IF ds = <<>> THEN <<1>>
  ELSE IF ds[Len(ds)] = 9
       THEN Append(IncDigits(SubSeq(ds, 1, Len(ds) - 1)), 0)
       ELSE Append(SubSeq(ds, 1, Len(ds) - 1), ds[Len(ds)] + 1)

\* A positive Decimal is [ds, exp]: the coefficient's digits and the exponent.
\* RoundPrec rounds it to the context: at most Prec digits, ROUND_HALF_UP.
RoundPrec(x) ==
  IF Len(x.ds) <= Prec THEN x
  ELSE LET keep == SubSeq(x.ds, 1, Prec)
           up == x.ds[Prec + 1] >= 5
           r == IF up THEN IncDigits(keep) ELSE keep
           drop == Len(x.ds) - Prec
       IN IF Len(r) > Prec
          THEN [ds |-> SubSeq(r, 1, Prec), exp |-> x.exp + drop + 1]
          ELSE [ds |-> r, exp |-> x.exp + drop]

\* n digits of the long division num / den, for num < 10 * den
RECURSIVE LongDiv(_, _, _)
LongDiv(num, den, n) ==
  IF n = 0 THEN <<>>
  ELSE <<num \div den>> \o LongDiv(10 * (num % den), den, n - 1)

\* Decimal.__truediv__ of two positive coefficients with equal exponents:
\* the quotient rounded to the context precision
DecDiv(a, b) ==
  LET e == IF a >= b THEN Len(Digits(a \div b)) - 1
           ELSE -(CHOOSE k \in 1..12 : a * Pow10(k) >= b /\ a * Pow10(k - 1) < b)
      num == IF e >= 0 THEN a ELSE a * Pow10(-e)
      den == IF e >= 0 THEN b * Pow10(e) ELSE b
  IN RoundPrec([ds |-> LongDiv(num, den, Prec + 1), exp |-> e - Prec])

\* the digits of ds * c + carry for a natural c (schoolbook, last digit first)
RECURSIVE MulDigits(_, _, _)
MulDigits(ds, c, carry) ==
  IF ds = <<>> THEN (IF carry = 0 THEN <<>> ELSE Digits(carry))
  ELSE LET t == ds[Len(ds)] * c + carry
       IN Append(MulDigits(SubSeq(ds, 1, Len(ds) - 1), c, t \div 10), t % 10)

\* Decimal.__mul__ by a positive integer coefficient (exponent 0), rounded to
\* the context precision
DecMul(x, c) == RoundPrec([ds |-> MulDigits(x.ds, c, 0), exp |-> x.exp])

\* Decimal.quantize to exponent 0 of a positive Decimal, ROUND_HALF_UP
DecQuantize(x) ==
  IF x.exp >= 0 THEN ToInt(x.ds) * Pow10(x.exp)
  ELSE LET k == -x.exp
           n == Len(x.ds)
       IN IF k > n THEN 0
          ELSE ToInt(SubSeq(x.ds, 1, n - k))
               + (IF x.ds[n - k + 1] >= 5 THEN 1 ELSE 0)

\* quantize of the exact integer n / 10 to an integer, ROUND_HALF_UP (ties
\* away from zero): the float operand has one digit more than the quantum
Quantize(n) == Sign(n) * ((Abs(n) + 5) \div 10)

\* ------------------------------------------------------------------ table
\* The DataFrame: a function from the dates it holds (the DatetimeIndex,
\* unique and sorted) to the row of that date.
Row(ops, sold, proceeds) ==
  [OuncesPerShare |-> ops, OuncesSold |-> sold, ProceedsPerShare |-> proceeds]

Restrict(df, S) == [d \in S |-> df[d]]

\* Series.sum() of one column
RECURSIVE SumRows(_, _, _)
SumRows(df, rows, col) ==
  IF rows = {} THEN 0
  ELSE LET d == CHOOSE x \in rows : TRUE
       IN df[d][col] + SumRows(df, rows \ {d}, col)

SumCol(df, col) == SumRows(df, DOMAIN df, col)

\* df[date:]: the rows from date on, date included
Since(df, date) == Restrict(df, {d \in DOMAIN df : d >= date})

\* (mutant) the slice without its end
RangeLocOpenEnded(df, lo, hi) == Restrict(df, {d \in DOMAIN df : lo <= d})

\* df.loc[date:end_date]: label slice, both ends included
RangeLoc(df, lo, hi) == Restrict(df, {d \in DOMAIN df : lo <= d /\ d <= hi})

\* df.loc[str(y)]: partial-string indexing by year.  pandas raises KeyError
\* when the whole year lies before the first or after the last row of a
\* sorted index; a year inside the index's range with no rows is an empty
\* slice, not an error.
YearLocRaises(df, yr) ==
  /\ DOMAIN df # {}
  /\ \/ \A d \in DOMAIN df : Dec31(yr) < d
     \/ \A d \in DOMAIN df : Jan1(yr) > d

\* (mutant) the whole table instead of the year's rows
YearLocWholeTable(df, yr) == df

YearLoc(df, yr) == Restrict(df, {d \in DOMAIN df : YearOf(d) = yr})

\* ------------------------------------------------------------------ steps
\* step1: ounces owned; df.loc[date, ...] raises KeyError for a missing date
step1Raises(df, date) == date \notin DOMAIN df

step1(df, date, shares) == Quantize(df[date].OuncesPerShare * shares)

\* step2: ounces sold from date on, times shares, to 8 places
step2(df, date, shares) == Quantize(SumCol(Since(df, date), "OuncesSold") * shares)

\* step3: sold / ounces raises decimal.DivisionByZero for ounces = 0, and
\* decimal.InvalidOperation (0 / 0) when sold is 0 as well
step3Raises(ounces, sold) ==
  IF ounces # 0 THEN "none"
  ELSE IF sold = 0 THEN "InvalidOperation" ELSE "DivisionByZero"

\* step3: cost = (sold / ounces) * basis, each operation rounded to the
\* context, then quantized to cents
step3(ounces, sold, basis) ==
  IF sold = 0 \/ basis = 0 THEN 0
  ELSE Sign(sold) * Sign(ounces) * Sign(basis)
       * DecQuantize(DecMul(DecDiv(Abs(sold), Abs(ounces)), Abs(basis)))

\* step4: proceeds quantized to cents, minus the cost of the ounces sold
step4(df, date, shares, cost_sold) ==
  Quantize(SumCol(Since(df, date), "ProceedsPerShare") * shares) - cost_sold

\* (mutant) the ounces sold, not their cost, taken off the basis
previous_years_basis_less_sold(df, initial_basis, date, shares) ==
  LET sold == step2(df, date, shares)
  IN <<initial_basis[1] - sold, initial_basis[2] - sold>>

\* (mutant) the cost taken for the ounces that remain, not the ounces sold
previous_years_basis_of_remaining(df, initial_basis, date, shares) ==
  LET ounces == initial_basis[2]
      remaining == ounces - step2(df, date, shares)
      basis == initial_basis[1]
  IN <<basis - step3(ounces, remaining, basis), remaining>>

\* previous_years_basis: (adjusted basis, remaining ounces) after one year
previous_years_basis(df, initial_basis, date, shares) ==
  LET ounces == initial_basis[2]
      sold == step2(df, date, shares)
      remaining == ounces - sold
      basis == initial_basis[1]
      cost_sold == step3(ounces, sold, basis)
      adjusted_basis == basis - cost_sold
  IN <<adjusted_basis, remaining>>
\* the locals of previous_years_basis at its return
previous_years_locals(df, initial_basis, date, shares) ==
  LET ounces == initial_basis[2]
      sold == step2(df, date, shares)
      basis == initial_basis[1]
      cost_sold == step3(ounces, sold, basis)
  IN [ounces |-> ounces, sold |-> sold, basis |-> basis, cost_sold |-> cost_sold]

\* ------------------------------------------------------------------ inputs
\* read_csv: the tables a ticker file may hold.  Every row has the same
\* OuncesPerShare and ProceedsPerShare; a year is either absent from the file
\* or has a row for each of its days, all with that year's OuncesSold.
MakeTable(present, ops, sold, proceeds) ==
  [d \in {x \in Dates : YearOf(x) \in present} |-> Row(ops, sold[YearOf(d)], proceeds)]

Tables ==
  {MakeTable(present, ops, sold, proceeds) :
     present \in SUBSET Years, ops \in OuncesPerShareValue,
     sold \in [Years -> OuncesSoldValues], proceeds \in ProceedsPerShareValues}

\* argparse's Namespace, but for date_sold
Args ==
  [ticker : {"gld"}, date_acquired : Dates, shares : SharesValues,
   price : PriceValues, year : Years]

\* args.date_sold: <<>> when -s is not given.  main reads it once, at line
\* 141, and the model draws it there.
DateSoldValues == {<<>>} \cup {<<d>> : d \in Dates}

\* ------------------------------------------------------------------ state
VARIABLES
  args,           \* the parsed command line
  date_sold,      \* args.date_sold, once main has read it
  pc,             \* where main is
  opened,         \* open(ticker + ".csv") was called and succeeded
  table,          \* history: the table read_csv returned
  df,             \* the DataFrame main holds
  basis,          \* main's basis
  date,           \* main's date: the effective start date
  initial_basis,  \* main's initial_basis: (cost basis, ounces)
  y,              \* the loop's year
  out,            \* what was printed: <<label, value>> in order
  outcome,        \* how the run ended
  trail           \* history: one record per completed loop iteration

vars == <<args, date_sold, pc, opened, table, df, basis, date, initial_basis, y, out, outcome, trail>>

NoTable == [d \in {} |-> Row(0, 0, 0)]

Init ==
  /\ args \in Args
  /\ date_sold = <<>>
  /\ pc = "start"
  /\ opened = FALSE
  /\ table = NoTable
  /\ df = NoTable
  /\ basis = 0
  /\ date = 0
  /\ initial_basis = <<0, 0>>
  /\ y = 0
  /\ out = <<>>
  /\ outcome = "running"
  /\ trail = <<>>

\* the values printed under a label
Printed(label) == {out[i][2] : i \in {j \in 1..Len(out) : out[j][1] = label}}

\* main's except clauses.  FileNotFoundError prints and exits.  The KeyError
\* clause formats args.date, an attribute the Namespace does not have (the
\* option is date_acquired): the handler itself raises AttributeError and
\* prints nothing.  Any other exception is not caught.
ExceptOutcome(exc) ==
  IF exc = "FileNotFoundError" THEN "FileNotFound"
  ELSE IF exc = "KeyError"
       THEN (IF "date" \in DOMAIN args THEN "DateNotFound" ELSE "AttributeError")
       ELSE exc

ExceptOut(exc, o) ==
  IF exc = "FileNotFoundError" THEN Append(o, <<"Could not find", 0>>)
  ELSE IF exc = "KeyError" /\ "date" \in DOMAIN args
       THEN Append(o, <<"Date not found", args.date_acquired>>)
       ELSE o

\* (mutant) the tax year itself carried forward too
LoopRunsInclusive(year_acquired, yr, year) == year_acquired <= year /\ yr <= year

\* the condition of `if year_acquired < args.year` and of `while y < args.year`
LoopRuns(year_acquired, yr, year) == year_acquired < year /\ yr < year

\* (mutant) the sale date ignored
EndDateOfYear(year, sale) == Dec31(year)

\* end_date: December 31 of the tax year unless a sale date is given
EndDate(year, sale) ==
  IF sale # <<>> THEN sale[1] ELSE Dec31(year)

\* ------------------------------------------------------------------ main
\* lines 110-112
ComputeBasis ==
  /\ pc = "start"
  /\ date' = args.date_acquired
  /\ basis' = Quantize(args.shares * args.price)
  /\ pc' = "open"
  /\ UNCHANGED <<args, date_sold, opened, table, df, initial_basis, y, out, outcome, trail>>

\* lines 114-117: the file exists and is read
OpenTable ==
  /\ pc = "open"
  /\ \E t \in Tables : df' = t /\ table' = t
  /\ opened' = TRUE
  /\ out' = Append(out, <<"Using", 0>>)
  /\ pc' = "lot"
  /\ UNCHANGED <<args, date_sold, basis, date, initial_basis, y, outcome, trail>>

\* lines 114, 165-167: the file does not exist
OpenFails ==
  /\ pc = "open"
  /\ out' = ExceptOut("FileNotFoundError", out)
  /\ outcome' = ExceptOutcome("FileNotFoundError")
  /\ pc' = "done"
  /\ UNCHANGED <<args, date_sold, opened, table, df, basis, date, initial_basis, y, trail>>

\* lines 119-125
InitLot ==
  /\ pc = "lot"
  /\ LET printed == Append(out, <<"Purchase cost basis", basis>>)
     IN IF step1Raises(df, date)
        THEN /\ out' = ExceptOut("KeyError", printed)
             /\ outcome' = ExceptOutcome("KeyError")
             /\ pc' = "done"
             /\ UNCHANGED <<initial_basis, y>>
        ELSE /\ out' = printed
             /\ initial_basis' = <<basis, step1(df, date, args.shares)>>
             /\ y' = YearOf(date)
             /\ pc' = "loop"
             /\ UNCHANGED outcome
  /\ UNCHANGED <<args, date_sold, opened, table, df, basis, date, trail>>

\* lines 126-133: one iteration of the carry-forward loop
CarryYear ==
  /\ pc = "loop"
  /\ LoopRuns(YearOf(args.date_acquired), y, args.year)
  /\ IF YearLocRaises(df, y)
     THEN /\ out' = ExceptOut("KeyError", out)
          /\ outcome' = ExceptOutcome("KeyError")
          /\ pc' = "done"
          /\ UNCHANGED <<initial_basis, date, y, trail>>
     ELSE LET dfy == YearLoc(df, y)
              l == previous_years_locals(dfy, initial_basis, date, args.shares)
              exc == step3Raises(l.ounces, l.sold)
          IN IF exc # "none"
             THEN /\ outcome' = ExceptOutcome(exc)
                  /\ pc' = "done"
                  /\ UNCHANGED <<initial_basis, date, y, trail, out>>
             ELSE /\ initial_basis' = previous_years_basis(dfy, initial_basis, date, args.shares)
                  /\ date' = Jan1(y + 1)
                  /\ y' = y + 1
                  /\ trail' = Append(trail,
                       [year |-> y, rows |-> DOMAIN Since(dfy, date), sold |-> l.sold,
                        cost_sold |-> l.cost_sold, before |-> initial_basis,
                        after |-> initial_basis'])
                  /\ UNCHANGED <<pc, out, outcome>>
  /\ UNCHANGED <<args, date_sold, opened, table, df, basis>>

\* lines 124, 126: the loop is over, or is never entered
LoopExit ==
  /\ pc = "loop"
  /\ ~LoopRuns(YearOf(args.date_acquired), y, args.year)
  /\ pc' = "settle"
  /\ UNCHANGED <<args, date_sold, opened, table, df, basis, date, initial_basis, y, out, outcome, trail>>

\* lines 135-163: the settlement of the tax year
Settle ==
  /\ pc = "settle"
  /\ \E s \in DateSoldValues :
     LET b == initial_basis[1]
         end_date == EndDate(args.year, s)
         dfr == RangeLoc(df, date, end_date)
         ounces == initial_basis[2]
         ounces_sold == step2(dfr, date, args.shares)
         exc == step3Raises(ounces, ounces_sold)
         cost_sold == step3(ounces, ounces_sold, b)
         gain_loss == step4(dfr, date, args.shares, cost_sold)
         head == out \o <<
           <<"Starting date", date>>,
           <<"Starting cost basis", b>>,
           <<"Starting pro rata amount of gold", ounces>>,
           <<"Amount of gold sold", ounces_sold>> >>
     IN /\ date_sold' = s
        /\ basis' = b
        /\ df' = dfr
        /\ IF exc # "none"
           THEN /\ out' = head
                /\ outcome' = ExceptOutcome(exc)
           ELSE /\ out' = head \o <<
                     <<"Cost of gold sold", cost_sold>>,
                     <<"Gain/Loss", gain_loss>>,
                     <<"Adjusted basis", b - cost_sold>> >>
                /\ outcome' = "ok"
  /\ pc' = "done"
  /\ UNCHANGED <<args, opened, table, date, initial_basis, y, trail>>

Next ==
  \/ ComputeBasis
  \/ OpenTable
  \/ OpenFails
  \/ InitLot
  \/ CarryYear
  \/ LoopExit
  \/ Settle

Spec == Init /\ [][Next]_vars
\* ------------------------------------------------------------------ claims
AcquiredYear == YearOf(args.date_acquired)

\* the lot the data model allows: positive share count and price
ValidLot == args.shares > 0 /\ args.price > 0

\* the settlement was reached: its first line was printed
Settled == Printed("Starting date") # {}

\* the end of the settlement range, as the run's inputs fix it
SettleEnd == IF date_sold # <<>> THEN date_sold[1] ELSE Dec31(args.year)

\* the rows of the file inside the settlement range
SettleRows == {d \in DOMAIN table : date <= d /\ d <= SettleEnd}

\* the sum of one column over a set of the file's dates, times the shares,
\* rounded half-up to the quantum
Aggregate(rows, col) == Quantize(SumCol(Restrict(table, rows), col) * args.shares)

\* the BasisState of the lot at acquisition
LotBasis ==
  <<Quantize(args.shares * args.price),
    Quantize(table[args.date_acquired].OuncesPerShare * args.shares)>>

RECURSIVE SoldUpTo(_)
SoldUpTo(i) == IF i = 0 THEN 0 ELSE trail[i].sold + SoldUpTo(i - 1)

\* C1: in every carry-forward transition and in the final settlement, the cost
\* of the ounces sold plus the ending basis is exactly the basis that entered
\* the step.
C1_Conservation ==
  /\ \A i \in 1..Len(trail) :
       trail[i].cost_sold + trail[i].after[1] = trail[i].before[1]
  /\ outcome = "ok" =>
       \A c \in Printed("Cost of gold sold") : \A a \in Printed("Adjusted basis") :
         c + a = initial_basis[1]

C1_Witness ==
  /\ outcome = "ok"
  /\ Len(trail) >= 1
  /\ trail[1].cost_sold > 0
  /\ trail[1].after[1] > 0
  /\ \E c \in Printed("Cost of gold sold") : c > 0
  /\ \E a \in Printed("Adjusted basis") : a > 0

\* C2 (as claimed): while the ounces sold so far do not exceed the initial
\* ounces, no transition increases the remaining ounces or the cost basis, and
\* neither is ever negative.
C2_MonotonicDepletion ==
  \A i \in 1..Len(trail) :
    SoldUpTo(i) <= trail[1].before[2] =>
      /\ trail[i].after[2] <= trail[i].before[2]
      /\ trail[i].after[1] <= trail[i].before[1]
      /\ trail[i].after[1] >= 0
      /\ trail[i].after[2] >= 0
      /\ trail[1].before[1] >= 0
      /\ trail[1].before[2] >= 0

\* C3 (as claimed, for a valid lot): a step that needs the cost of sale while
\* the ounces, used up by earlier years, are 0 ends the run in the DepletedLot
\* outcome.
C3_DepletedLot ==
  [][(/\ ValidLot
      /\ trail # <<>>
      /\ initial_basis[2] = 0
      /\ \/ pc = "settle"
         \/ /\ pc = "loop"
            /\ LoopRuns(AcquiredYear, y, args.year)
            /\ ~YearLocRaises(df, y))
     => outcome' = "DepletedLot"]_vars

\* C4: a run acquired before the tax year whose loop ends without an error
\* made one transition for each year from the acquisition year to the year
\* before the tax year, in that order; each read exactly the file's rows of
\* its year from the acquisition date (first year) or January 1 (later years)
\* on; and the effective start date is January 1 of the tax year.
C4_Transitions ==
  (/\ pc = "settle" \/ outcome = "ok"
   /\ AcquiredYear < args.year)
  => /\ Len(trail) = args.year - AcquiredYear
     /\ \A i \in 1..Len(trail) :
          /\ trail[i].year = AcquiredYear + i - 1
          /\ trail[i].rows =
               {d \in DOMAIN table :
                  /\ YearOf(d) = trail[i].year
                  /\ d >= (IF i = 1 THEN args.date_acquired ELSE Jan1(trail[i].year))}
     /\ date = Jan1(args.year)

C4_Witness ==
  /\ pc = "settle"
  /\ Len(trail) = 2
  /\ trail[1].rows # {d \in DOMAIN table : YearOf(d) = trail[1].year}
  /\ trail[2].rows # {}
  /\ \E d \in DOMAIN table : YearOf(d) = args.year

\* C5: a run acquired in the tax year makes no transition; the settlement
\* gets the lot's BasisState as it was at acquisition and starts at the
\* acquisition date.
C5_SingleYear ==
  (/\ pc = "settle" \/ Settled
   /\ AcquiredYear = args.year)
  => /\ trail = <<>>
     /\ initial_basis = LotBasis
     /\ date = args.date_acquired

C5_Witness ==
  /\ pc = "settle"
  /\ AcquiredYear = args.year
  /\ initial_basis[1] > 0
  /\ initial_basis[2] > 0
  /\ \E d \in DOMAIN table : d >= date /\ YearOf(d) = args.year /\ table[d].OuncesSold > 0

\* C6: a transition whose year sold 0 ounces (the file's rows of the year from
\* the effective date on, times the shares, to 8 places) with positive
\* remaining ounces returns the BasisState it was given.
C6_ZeroSale ==
  \A i \in 1..Len(trail) :
    (Aggregate(trail[i].rows, "OuncesSold") = 0 /\ trail[i].before[2] > 0)
      => trail[i].after = trail[i].before

C6_Witness ==
  /\ Len(trail) = 2
  /\ \A i \in 1..2 :
       /\ trail[i].rows # {}
       /\ Aggregate(trail[i].rows, "OuncesSold") = 0
       /\ trail[i].before[2] > 0
       /\ trail[i].before[1] > 0

\* C7 (as claimed, for a valid lot): a run whose acquisition date is not in the file, or with
\* a year from the acquisition year to the year before the tax year without
\* rows, ends in the DateNotFound outcome with the message naming the date,
\* and prints no settlement field.
C7_DateNotFound ==
  (/\ ValidLot
   /\ pc = "done"
   /\ opened
   /\ \/ args.date_acquired \notin DOMAIN table
      \/ \E yr \in AcquiredYear..(args.year - 1) :
           \A d \in DOMAIN table : YearOf(d) # yr)
  => /\ outcome = "DateNotFound"
     /\ Printed("Date not found") # {}
     /\ Printed("Amount of gold sold") = {}
     /\ Printed("Cost of gold sold") = {}
     /\ Printed("Gain/Loss") = {}
     /\ Printed("Adjusted basis") = {}

\* C8 (as claimed): a run with a share count or a price that is not positive
\* never opens the file, computes nothing, and ends in the InvalidInput
\* outcome.
C8_InvalidInput ==
  (args.shares <= 0 \/ args.price <= 0)
  => /\ ~opened
     /\ Printed("Purchase cost basis") = {}
     /\ Printed("Adjusted basis") = {}
     /\ pc = "done" => outcome = "InvalidInput"

\* C9: a completed settlement sums exactly the file's rows from the effective
\* date to the end date (the sale date if given, else December 31 of the tax
\* year), both included; gain/loss is the rounded proceeds minus the cost of
\* the ounces sold, the ending basis is the basis minus that cost, and the
\* BasisState is the one the carry-forward left.
C9_Settlement ==
  outcome = "ok" =>
    LET sold == Aggregate(SettleRows, "OuncesSold")
        cost == step3(initial_basis[2], sold, initial_basis[1])
    IN /\ DOMAIN df = SettleRows
       /\ Printed("Amount of gold sold") = {sold}
       /\ Printed("Cost of gold sold") = {cost}
       /\ Printed("Gain/Loss") = {Aggregate(SettleRows, "ProceedsPerShare") - cost}
       /\ Printed("Adjusted basis") = {initial_basis[1] - cost}
       /\ Printed("Starting cost basis") = {initial_basis[1]}
       /\ Printed("Starting pro rata amount of gold") = {initial_basis[2]}
       /\ initial_basis = (IF trail = <<>> THEN LotBasis ELSE trail[Len(trail)].after)

C9_Witness ==
  /\ outcome = "ok"
  /\ date_sold # <<>>
  /\ \E d \in DOMAIN table : d < date /\ table[d].OuncesSold > 0
  /\ \E d \in DOMAIN table : d > SettleEnd /\ YearOf(d) = args.year /\ table[d].OuncesSold > 0
  /\ \E c \in Printed("Cost of gold sold") : c > 0
  /\ \E g \in Printed("Gain/Loss") : g # 0
  /\ trail # <<>>

\* the settlement range is empty because it starts after its end
EmptyRange == Settled /\ pc = "done" /\ date > SettleEnd

\* what an empty settlement reports
ReportsNothingSold ==
  /\ outcome = "ok"
  /\ Printed("Amount of gold sold") = {0}
  /\ Printed("Cost of gold sold") = {0}
  /\ Printed("Gain/Loss") = {0}
  /\ Printed("Adjusted basis") = Printed("Starting cost basis")
  /\ AcquiredYear > args.year => trail = <<>>

\* C10 (as claimed, for a valid lot): an empty settlement range, with the
\* acquisition date in the file and positive initial ounces, ends without an
\* error and reports 0 ounces sold, 0.00 cost, 0.00 gain/loss and the starting
\* basis.
C10_EmptyRangeOriginal ==
  (/\ ValidLot
   /\ EmptyRange
   /\ args.date_acquired \in DOMAIN table
   /\ LotBasis[2] > 0)
  => ReportsNothingSold

\* C10 (amended): the same, for a settlement that is handed positive
\* remaining ounces.
C10_EmptyRange ==
  (/\ EmptyRange
   /\ args.date_acquired \in DOMAIN table
   /\ initial_basis[2] > 0)
  => ReportsNothingSold

C10_Witness ==
  /\ EmptyRange
  /\ outcome = "ok"
  /\ AcquiredYear > args.year
  /\ initial_basis[1] > 0
  /\ \E d \in DOMAIN table : d >= date /\ table[d].OuncesSold > 0
====
